---- MODULE Spec2Model ----
(***************************************************************************)
(* Model of pik.py: the Task record, its one-line text form, and the       *)
(* TaskManager that keeps an ordered list of tasks in memory and rewrites  *)
(* a flat text file after every mutation.                                  *)
(*                                                                         *)
(* Strings are sequences of one-character strings, so that to_line,        *)
(* strip, split and from_line are computed as the code computes them.      *)
(* The strings given to the manager are single-line strings (what input()  *)
(* in menu_principal returns): they may hold blanks and ';' but no line    *)
(* break, so the file is a sequence of lines, each written by one          *)
(* f.write(t.to_line() + "\n").                                            *)
(***************************************************************************)
EXTENDS Integers, Sequences, FiniteSets, TLC

\* ---------------------------------------------------------------- bounds
MaxTasks == 2   \* the list is not grown beyond this many tasks
MaxClock == 1   \* datetime.now() ranges over 0..MaxClock
MaxLinhas == 2  \* a file found at start-up has at most this many lines

\* ---------------------------------------------------------------- inputs
\* names typed by the caller: plain, with a leading blank, with a ';'
Nomes == { <<"a">>, <<" ", "a">>, <<"b", ";">> }
\* (priority, category) pairs typed by the caller: a capitalised priority,
\* a lowercase one, and one that is not allowed
Entradas == { << <<"A","l","t","a">>, <<"c">> >>,
              << <<"b","a","i","x","a">>, <<"w">> >>,
              << <<"u","r","g","e","n","t">>, <<"c">> >> }
\* lines a file not written by the manager may hold: a pending task, a
\* completed one, an empty line, five fields, seven fields, a status that is
\* neither True nor False, a creation date and a completion date that are
\* no dates
Linhas ==
  { <<"a",";","a","l","t","a",";","c",";","d","T","0",";","F","a","l","s","e",";","N","o","n","e">>,
    <<"a",";","a","l","t","a",";","c",";","d","T","0",";","T","r","u","e",";","d"," ","1">>,
    <<>>,
    <<"a",";","a","l","t","a",";","c",";","d","T","0",";","F","a","l","s","e">>,
    <<"a",";","a","l","t","a",";","c",";","d","T","0",";","F","a","l","s","e",";","N","o","n","e",";","x">>,
    <<"a",";","a","l","t","a",";","c",";","d","T","0",";","y","e","s",";","N","o","n","e">>,
    <<"a",";","a","l","t","a",";","c",";","x","x",";","F","a","l","s","e",";","N","o","n","e">>,
    <<"a",";","a","l","t","a",";","c",";","d","T","0",";","T","r","u","e",";","x","x">> }
\* the argument of listar_tarefas: None, True or False
Filtros == { <<>>, <<TRUE>>, <<FALSE>> }

\* ---------------------------------------------------------------- strings
None == <<>>            \* Optional value: <<>> is None, <<v>> is v
NoneTxt == <<"N","o","n","e">>
TrueTxt == <<"T","r","u","e">>
FalseTxt == <<"F","a","l","s","e">>
Digitos == <<"0","1","2","3","4","5","6","7","8","9">>

\* str.lower() on the letters the inputs use
lower(s) ==
  [i \in 1..Len(s) |->
     CASE s[i] = "A" -> "a"
       [] s[i] = "B" -> "b"
       [] s[i] = "M" -> "m"
       [] OTHER -> s[i]]

\* the set tested in adicionar_tarefa: {"baixa", "média", "alta"}
PrioridadesValidas == { <<"b","a","i","x","a">>, <<"m","é","d","i","a">>,
                        <<"a","l","t","a">> }

RECURSIVE lstrip(_)
lstrip(s) == IF s # <<>> /\ Head(s) = " " THEN lstrip(Tail(s)) ELSE s

RECURSIVE rstrip(_)
rstrip(s) ==
  IF s # <<>> /\ s[Len(s)] = " " THEN rstrip(SubSeq(s, 1, Len(s) - 1)) ELSE s

\* str.strip(): blanks removed at both ends of the whole line
strip(s) == rstrip(lstrip(s))

\* str.split(";"): the fields between separators, empty fields kept
RECURSIVE split(_, _)
split(s, campo) ==
  IF s = <<>> THEN << campo >>
  ELSE IF Head(s) = ";" THEN << campo >> \o split(Tail(s), <<>>)
  ELSE split(Tail(s), Append(campo, Head(s)))

\* datetime.isoformat(): date part, 'T', time part
isoformat(d) == << "d", "T", Digitos[d + 1] >>

\* str(datetime): date part, blank, time part
str_datetime(d) == << "d", " ", Digitos[d + 1] >>

\* datetime.fromisoformat accepts any one-character separator
DigitoDe(c) == CHOOSE n \in 0..9 : Digitos[n + 1] = c
iso_valido(s) ==
  /\ Len(s) = 3
  /\ s[1] = "d"
  /\ \E n \in 0..9 : Digitos[n + 1] = s[3]
fromisoformat(s) == DigitoDe(s[3])

\* ---------------------------------------------------------------- Task
\* a Task.__init__ that stores the priority as typed
Task_sem_lower(nome, prioridade, categoria, agora) ==
  [ nome |-> nome,
    prioridade |-> prioridade,
    categoria |-> categoria,
    data_criacao |-> agora,
    concluida |-> FALSE,
    data_conclusao |-> None ]

\* Task.__init__
Task(nome, prioridade, categoria, agora) ==
  [ nome |-> nome,
    prioridade |-> lower(prioridade),
    categoria |-> categoria,
    data_criacao |-> agora,
    concluida |-> FALSE,
    data_conclusao |-> None ]

\* a concluir that also stamps the creation date anew
concluir_recria(t, agora) ==
  [ t EXCEPT !.concluida = TRUE, !.data_conclusao = << agora >>,
             !.data_criacao = agora ]

\* a concluir that forgets the completion date
concluir_sem_data(t, agora) == [ t EXCEPT !.concluida = TRUE ]

\* Task.concluir
concluir(t, agora) ==
  [ t EXCEPT !.concluida = TRUE, !.data_conclusao = << agora >> ]

\* Task.to_line
to_line(t) ==
  t.nome \o <<";">> \o t.prioridade \o <<";">> \o t.categoria \o <<";">>
    \o isoformat(t.data_criacao) \o <<";">>
    \o (IF t.concluida THEN TrueTxt ELSE FalseTxt) \o <<";">>
    \o (IF t.data_conclusao = None THEN NoneTxt
        ELSE str_datetime(t.data_conclusao[1]))

\* a from_line that leaves the creation date Task() set, the time of the load
from_line_sem_criacao(linha, agora) ==
  LET f == split(strip(linha), <<>>)
      task == Task(f[1], f[2], f[3], agora)
  IN [ task EXCEPT
         !.concluida = (f[5] = TrueTxt),
         !.data_conclusao = IF f[6] # NoneTxt THEN << fromisoformat(f[6]) >>
                            ELSE None ]

\* a from_line that compares the status field with "true"
from_line_minuscula(linha, agora) ==
  LET f == split(strip(linha), <<>>)
      task == Task(f[1], f[2], f[3], agora)
  IN [ task EXCEPT
         !.data_criacao = fromisoformat(f[4]),
         !.concluida = (f[5] = <<"t","r","u","e">>),
         !.data_conclusao = IF f[6] # NoneTxt THEN << fromisoformat(f[6]) >>
                            ELSE None ]

\* Task.from_line: the six-way unpacking and both fromisoformat calls raise
\* ValueError; from_line_ok tells whether they do
from_line_ok(linha) ==
  LET f == split(strip(linha), <<>>) IN
    /\ Len(f) = 6
    /\ iso_valido(f[4])
    /\ (f[6] # NoneTxt => iso_valido(f[6]))

from_line(linha, agora) ==
  LET f == split(strip(linha), <<>>)
      task == Task(f[1], f[2], f[3], agora)
  IN [ task EXCEPT
         !.data_criacao = fromisoformat(f[4]),
         !.concluida = (f[5] = TrueTxt),
         !.data_conclusao = IF f[6] # NoneTxt THEN << fromisoformat(f[6]) >>
                            ELSE None ]

\* ---------------------------------------------------------------- state
VARIABLES
  tasks,    \* TaskManager.tasks: the in-memory list
  existe,   \* os.path.exists(self.arquivo)
  arquivo,  \* the lines of the backing file
  agora,    \* the value datetime.now() returns
  ultimo,   \* the last call: operation, outcome, whether it opened the file for writing
  retorno   \* what the last listar_tarefas / encontrar_tarefa returned

vars == << tasks, existe, arquivo, agora, ultimo, retorno >>

\* ---------------------------------------------------------------- TaskManager
\* a salvar_tarefas that opens the file in append mode
salvar_tarefas_acrescenta(ts) ==
  arquivo \o [ i \in 1..Len(ts) |-> to_line(ts[i]) ]

\* TaskManager.salvar_tarefas: open(..., "w") truncates, one line per task
salvar_tarefas(ts) == [ i \in 1..Len(ts) |-> to_line(ts[i]) ]

\* TaskManager.carregar_tarefas
carregar_ok(ex, arq) ==
  ~ex \/ \A i \in 1..Len(arq) : from_line_ok(arq[i])

carregar_tarefas(ex, arq, now) ==
  IF ~ex THEN <<>>
  ELSE [ i \in 1..Len(arq) |-> from_line(arq[i], now) ]

\* the test of adicionar_tarefa with a bare truthiness check
prioridade_valida_naovazia(prioridade) == Len(prioridade) > 0

\* adicionar_tarefa: prioridade.lower() in {"baixa", "média", "alta"}
prioridade_valida(prioridade) == lower(prioridade) \in PrioridadesValidas

\* the duplicate test of adicionar_tarefa with the comparison inverted
nome_existe_invertido(ts, nome) == \E i \in 1..Len(ts) : ts[i].nome # nome

\* adicionar_tarefa: any(t.nome == nome for t in self.tasks)
nome_existe(ts, nome) == \E i \in 1..Len(ts) : ts[i].nome = nome

\* the filter of remover_tarefa comparing names with leading blanks dropped
sem_nome_aparado(ts, nome) ==
  LET Fica(t) == lstrip(t.nome) # lstrip(nome) IN SelectSeq(ts, Fica)

\* remover_tarefa: [t for t in self.tasks if t.nome != nome]
sem_nome(ts, nome) ==
  LET Fica(t) == t.nome # nome IN SelectSeq(ts, Fica)

\* an encontrar_tarefa that returns the loop variable after the loop
encontrar_tarefa_ultima(ts, nome) ==
  IF \E i \in 1..Len(ts) : ts[i].nome = nome
  THEN CHOOSE i \in 1..Len(ts) :
         /\ ts[i].nome = nome
         /\ \A j \in 1..(i - 1) : ts[j].nome # nome
  ELSE Len(ts)

\* TaskManager.encontrar_tarefa: index of the first task with that name,
\* 0 when the loop ends and ValueError is raised
encontrar_tarefa(ts, nome) ==
  IF \E i \in 1..Len(ts) : ts[i].nome = nome
  THEN CHOOSE i \in 1..Len(ts) :
         /\ ts[i].nome = nome
         /\ \A j \in 1..(i - 1) : ts[j].nome # nome
  ELSE 0

\* a listar_tarefas that tests "not concluida" where it should test "is None"
listar_tarefas_falsy(ts, concluida) ==
  LET Fica(t) == \/ concluida = None
                 \/ concluida = << FALSE >>
                 \/ t.concluida = concluida[1]
  IN SelectSeq(ts, Fica)

\* TaskManager.listar_tarefas
listar_tarefas(ts, concluida) ==
  LET Fica(t) == concluida = None \/ t.concluida = concluida[1]
  IN SelectSeq(ts, Fica)

Chamada(op, erro, gravou) ==
  [ op |-> op, erro |-> erro, gravou |-> gravou ]

Init ==
  /\ existe = FALSE
  /\ arquivo = <<>>
  /\ tasks = carregar_tarefas(existe, arquivo, 0)
  /\ agora = 0
  /\ ultimo = Chamada("init", "ok", FALSE)
  /\ retorno = <<>>

\* a TaskManager.__init__ whose load skips the lines it cannot read
TaskManager_init_parcial ==
  LET Legivel(l) == from_line_ok(l)
      legiveis == IF existe THEN SelectSeq(arquivo, Legivel) ELSE <<>>
  IN /\ tasks' = [ i \in 1..Len(legiveis) |-> from_line(legiveis[i], agora) ]
     /\ ultimo' = Chamada("init", "ok", FALSE)
     /\ retorno' = <<>>
     /\ UNCHANGED << existe, arquivo, agora >>

\* TaskManager.__init__ run again on the same path
TaskManager_init ==
  /\ IF carregar_ok(existe, arquivo)
     THEN /\ tasks' = carregar_tarefas(existe, arquivo, agora)
          /\ ultimo' = Chamada("init", "ok", FALSE)
     ELSE /\ tasks' = tasks
          /\ ultimo' = Chamada("init", "Parse", FALSE)
  /\ retorno' = <<>>
  /\ UNCHANGED << existe, arquivo, agora >>

\* TaskManager.adicionar_tarefa (the list is not grown beyond MaxTasks)
adicionar_tarefa(nome, prioridade, categoria) ==
  /\ retorno' = <<>>
  /\ UNCHANGED agora
  /\ IF ~prioridade_valida(prioridade)
     THEN /\ ultimo' = Chamada("adicionar", "Prioridade", FALSE)
          /\ UNCHANGED << tasks, existe, arquivo >>
     ELSE IF nome_existe(tasks, nome)
     THEN /\ ultimo' = Chamada("adicionar", "JaExiste", FALSE)
          /\ UNCHANGED << tasks, existe, arquivo >>
     ELSE /\ Len(tasks) < MaxTasks
          /\ tasks' = Append(tasks, Task(nome, prioridade, categoria, agora))
          /\ existe' = TRUE
          /\ arquivo' = salvar_tarefas(tasks')
          /\ ultimo' = Chamada("adicionar", "ok", TRUE)

\* TaskManager.listar_tarefas called by the user
Listar(concluida) ==
  /\ retorno' = listar_tarefas(tasks, concluida)
  /\ ultimo' = Chamada("listar", "ok", FALSE)
  /\ UNCHANGED << tasks, existe, arquivo, agora >>

\* TaskManager.encontrar_tarefa called by the user
Encontrar(nome) ==
  LET i == encontrar_tarefa(tasks, nome) IN
    /\ IF i = 0
       THEN /\ ultimo' = Chamada("encontrar", "NaoEncontrada", FALSE)
            /\ retorno' = <<>>
       ELSE /\ ultimo' = Chamada("encontrar", "ok", FALSE)
            /\ retorno' = << tasks[i] >>
    /\ UNCHANGED << tasks, existe, arquivo, agora >>

\* TaskManager.concluir_tarefa
concluir_tarefa(nome) ==
  LET i == encontrar_tarefa(tasks, nome) IN
    /\ retorno' = <<>>
    /\ UNCHANGED agora
    /\ IF i = 0
       THEN /\ ultimo' = Chamada("concluir", "NaoEncontrada", FALSE)
            /\ UNCHANGED << tasks, existe, arquivo >>
       ELSE /\ tasks' = [ tasks EXCEPT ![i] = concluir(tasks[i], agora) ]
            /\ existe' = TRUE
            /\ arquivo' = salvar_tarefas(tasks')
            /\ ultimo' = Chamada("concluir", "ok", TRUE)

\* TaskManager.remover_tarefa
remover_tarefa(nome) ==
  /\ tasks' = sem_nome(tasks, nome)
  /\ existe' = TRUE
  /\ arquivo' = salvar_tarefas(tasks')
  /\ ultimo' = Chamada("remover", "ok", TRUE)
  /\ retorno' = <<>>
  /\ UNCHANGED agora

\* datetime.now() moves on between calls
Tick ==
  /\ agora < MaxClock
  /\ agora' = agora + 1
  /\ UNCHANGED << tasks, existe, arquivo, ultimo, retorno >>

Next ==
  \/ TaskManager_init
  \/ \E n \in Nomes, e \in Entradas : adicionar_tarefa(n, e[1], e[2])
  \/ \E f \in Filtros : Listar(f)
  \/ \E n \in Nomes : Encontrar(n)
  \/ \E n \in Nomes : concluir_tarefa(n)
  \/ \E n \in Nomes : remover_tarefa(n)
  \/ Tick

Spec == Init /\ [][Next]_vars

\* ---------------------------------------------------------------- failed writes
\* salvar_tarefas raising OSError: at open() (k = -1, the file is left as it
\* was) or in the loop after k whole lines went to the truncated file
QuedasDe(ts) == -1..(Len(ts) - 1)

salvar_tarefas_falha(ts, k) ==
  IF k = -1
  THEN [ existe |-> existe, arquivo |-> arquivo ]
  ELSE [ existe |-> TRUE, arquivo |-> SubSeq(salvar_tarefas(ts), 1, k) ]

\* adicionar_tarefa when the write fails: the task is appended, OSError leaves
adicionar_tarefa_falha(nome, prioridade, categoria) ==
  /\ prioridade_valida(prioridade)
  /\ ~nome_existe(tasks, nome)
  /\ Len(tasks) < MaxTasks
  /\ tasks' = Append(tasks, Task(nome, prioridade, categoria, agora))
  /\ \E k \in QuedasDe(tasks') :
       /\ existe' = salvar_tarefas_falha(tasks', k).existe
       /\ arquivo' = salvar_tarefas_falha(tasks', k).arquivo
       /\ ultimo' = Chamada("adicionar", "IO", k >= 0)
  /\ retorno' = <<>>
  /\ UNCHANGED agora

\* concluir_tarefa when the write fails: the task is completed, OSError leaves
concluir_tarefa_falha(nome) ==
  LET i == encontrar_tarefa(tasks, nome) IN
    /\ i # 0
    /\ tasks' = [ tasks EXCEPT ![i] = concluir(tasks[i], agora) ]
    /\ \E k \in QuedasDe(tasks') :
         /\ existe' = salvar_tarefas_falha(tasks', k).existe
         /\ arquivo' = salvar_tarefas_falha(tasks', k).arquivo
         /\ ultimo' = Chamada("concluir", "IO", k >= 0)
    /\ retorno' = <<>>
    /\ UNCHANGED agora

\* remover_tarefa when the write fails: the list is filtered, OSError leaves
remover_tarefa_falha(nome) ==
  /\ tasks' = sem_nome(tasks, nome)
  /\ \E k \in QuedasDe(tasks') :
       /\ existe' = salvar_tarefas_falha(tasks', k).existe
       /\ arquivo' = salvar_tarefas_falha(tasks', k).arquivo
       /\ ultimo' = Chamada("remover", "IO", k >= 0)
  /\ retorno' = <<>>
  /\ UNCHANGED agora

\* the calls that write, failing or not, the manager built again, the clock
NextFalha ==
  \/ TaskManager_init
  \/ \E n \in Nomes, e \in Entradas : adicionar_tarefa(n, e[1], e[2])
  \/ \E n \in Nomes : concluir_tarefa(n)
  \/ \E n \in Nomes : remover_tarefa(n)
  \/ \E n \in Nomes, e \in Entradas : adicionar_tarefa_falha(n, e[1], e[2])
  \/ \E n \in Nomes : concluir_tarefa_falha(n)
  \/ \E n \in Nomes : remover_tarefa_falha(n)
  \/ Tick

SpecFalha == Init /\ [][NextFalha]_vars

\* ---------------------------------------------------------------- start-up
\* The program starts on a path where a file of any content may lie, before
\* menu_principal builds the manager.
Arquivos ==
  UNION { [ 1..n -> Linhas ] : n \in 0..MaxLinhas }

InitArquivo ==
  /\ existe \in BOOLEAN
  /\ arquivo \in (IF existe THEN Arquivos ELSE { <<>> })
  /\ tasks = <<>>
  /\ agora = 0
  /\ ultimo = Chamada("inicio", "ok", FALSE)
  /\ retorno = <<>>

\* a manager was built: the ValueError of a failed load ends menu_principal
Construido == ultimo.op # "inicio" /\ ultimo.erro # "Parse"

NextArquivo ==
  \/ TaskManager_init
  \/ Construido /\ \E f \in Filtros : Listar(f)
  \/ Construido /\ \E n \in Nomes : Encontrar(n)
  \/ Tick

SpecArquivo == InitArquivo /\ [][NextArquivo]_vars

\* ---------------------------------------------------------------- properties
\* the caller keeps ';' out of names, as the file format asks
SemSeparador(ts) ==
  \A i \in 1..Len(ts) : \A k \in 1..Len(ts[i].nome) : ts[i].nome[k] # ";"

NumComNome(ts, nome) == Cardinality({ i \in 1..Len(ts) : ts[i].nome = nome })

NadaMudou ==
  /\ tasks' = tasks
  /\ arquivo' = arquivo
  /\ existe' = existe
  /\ ~ultimo'.gravou

\* C1: in every reachable state no two tasks of the in-memory list have the
\* same name (exact comparison).
C1_NomesUnicos ==
  \A i, j \in 1..Len(tasks) : i # j => tasks[i].nome # tasks[j].nome

\* C2: in every reachable state, for every task, data_conclusao is not None
\* if and only if concluida is true.
C2_ConclusaoSseConcluida ==
  \A i \in 1..Len(tasks) :
    (tasks[i].data_conclusao # None) <=> tasks[i].concluida

\* a store reloaded from its file holding a completed and a pending task
C2_Witness ==
  /\ ultimo.op = "init"
  /\ ultimo.erro = "ok"
  /\ \E i, j \in 1..Len(tasks) : tasks[i].concluida /\ ~tasks[j].concluida

C4_Durabilidade ==
  [][ (TaskManager_init /\ SemSeparador(tasks))
        => (ultimo'.erro = "ok" /\ tasks' = tasks) ]_vars

\* C5 as stated: right after a successful adicionar of a name, a second
\* adicionar of that name with any priority and category fails with
\* "Tarefa ja existe", changes nothing, and one task has that name.
C5_Original ==
  [][ \A n \in Nomes, e \in Entradas :
        ( /\ ultimo.op = "adicionar" /\ ultimo.erro = "ok"
          /\ tasks[Len(tasks)].nome = n
          /\ adicionar_tarefa(n, e[1], e[2]) )
        => ( /\ ultimo'.erro = "JaExiste"
             /\ NadaMudou
             /\ NumComNome(tasks', n) = 1 ) ]_vars

\* C5 amended: an adicionar of a name some task already has, with a priority
\* whose lowercase form is allowed, fails with "Tarefa ja existe" and changes
\* neither the list nor the file, which is not opened; with a priority that
\* is not allowed it fails with the priority error and changes nothing; when
\* the call comes right after the successful adicionar of that name, exactly
\* one task has the name.
C5_Duplicada ==
  [][ \A n \in Nomes, e \in Entradas :
        ( (\E i \in 1..Len(tasks) : tasks[i].nome = n)
          /\ adicionar_tarefa(n, e[1], e[2]) )
        => ( /\ ultimo'.erro = IF lower(e[1]) \in PrioridadesValidas
                               THEN "JaExiste" ELSE "Prioridade"
             /\ NadaMudou
             /\ ( ( /\ ultimo.op = "adicionar" /\ ultimo.erro = "ok"
                    /\ tasks[Len(tasks)].nome = n )
                  => NumComNome(tasks', n) = 1 ) ) ]_vars

\* an adicionar refused as duplicate while one task is in the list
C5_Witness ==
  /\ ultimo.op = "adicionar"
  /\ ultimo.erro = "JaExiste"
  /\ Len(tasks) = 1

\* C6: adicionar with a priority whose lowercase form is not allowed fails
\* with the priority error and leaves the list and the file as they were;
\* the file is neither opened for writing nor created.
C6_PrioridadeInvalida ==
  [][ \A n \in Nomes, e \in Entradas :
        ( lower(e[1]) \notin { <<"b","a","i","x","a">>, <<"m","é","d","i","a">>,
                               <<"a","l","t","a">> }
          /\ adicionar_tarefa(n, e[1], e[2]) )
        => ( ultimo'.erro = "Prioridade" /\ NadaMudou ) ]_vars

\* an adicionar refused for its priority before any file was created
C6_Witness ==
  /\ ultimo.op = "adicionar"
  /\ ultimo.erro = "Prioridade"
  /\ ~existe
  /\ tasks = <<>>

\* C7: concluir_tarefa and encontrar_tarefa with a name no task has fail with
\* "Tarefa nao encontrada" and change neither the list nor the file, which is
\* not opened.
C7_NaoEncontrada ==
  [][ \A n \in Nomes :
        ( (\A i \in 1..Len(tasks) : tasks[i].nome # n)
          /\ (concluir_tarefa(n) \/ Encontrar(n)) )
        => ( ultimo'.erro = "NaoEncontrada" /\ NadaMudou /\ retorno' = <<>> )
    ]_vars

\* a concluir that found nothing while a pending task is in the list
C7_Witness ==
  /\ ultimo.op = "concluir"
  /\ ultimo.erro = "NaoEncontrada"
  /\ \E i \in 1..Len(tasks) : ~tasks[i].concluida

ContemNome(ts, nome) == \E i \in 1..Len(ts) : ts[i].nome = nome

\* C8: for a name X some task has, concluir_tarefa(X) does not fail; after it
\* the completed listing holds a task named X and the pending listing holds
\* none; a task completed again gets a completion date not earlier than the
\* one it had.
C8_ConcluirLista ==
  [][ \A n \in Nomes :
        ( (\E i \in 1..Len(tasks) : tasks[i].nome = n) /\ concluir_tarefa(n) )
        => ( /\ ultimo'.erro = "ok"
             /\ ContemNome(listar_tarefas(tasks', <<TRUE>>), n)
             /\ ~ContemNome(listar_tarefas(tasks', <<FALSE>>), n)
             /\ \A i \in 1..Len(tasks) :
                  (tasks[i].nome = n /\ tasks[i].concluida)
                    => /\ tasks'[i].data_conclusao # None
                       /\ tasks'[i].data_conclusao[1]
                            >= tasks[i].data_conclusao[1] ) ]_vars

\* C9: concluida never goes back from true to false: a step that shortens
\* the list keeps the remaining records as they were, in order; any other
\* step (adicionar, concluir, listar, encontrar, building the manager again)
\* keeps every completed task completed at its position.
C9_ConclusaoIrreversivel ==
  [][ IF Len(tasks') < Len(tasks)
      THEN \A j \in 1..Len(tasks') :
             \E i \in j..Len(tasks) : tasks'[j] = tasks[i]
      ELSE \A i \in 1..Len(tasks) :
             tasks[i].concluida => tasks'[i].concluida ]_vars

\* a manager built again from its file, holding a completed task
C9_Witness ==
  /\ ultimo.op = "init"
  /\ ultimo.erro = "ok"
  /\ existe
  /\ \E i \in 1..Len(tasks) : tasks[i].concluida

\* what a manager built from the file would hold: the tasks read from it,
\* or the failure to read it
Descreve(ex, arq) ==
  IF carregar_ok(ex, arq) THEN << carregar_tarefas(ex, arq, 0) >> ELSE <<>>

\* C10: remover_tarefa with a name no task has raises nothing and leaves the
\* list as it was, same tasks in the same order; the file it writes reads
\* back as the same task sequence as the file before the call did (an absent
\* file reading as the empty list).
C10_RemoverAusente ==
  [][ \A n \in Nomes :
        ( (\A i \in 1..Len(tasks) : tasks[i].nome # n) /\ remover_tarefa(n) )
        => ( /\ ultimo'.erro = "ok"
             /\ tasks' = tasks
             /\ existe'
             /\ Len(arquivo') = Len(tasks)
             /\ Descreve(existe', arquivo') = Descreve(existe, arquivo) ) ]_vars

\* a remover that returned with the list still full: nothing was removed
C10_Witness ==
  /\ ultimo.op = "remover"
  /\ ultimo.erro = "ok"
  /\ Len(tasks) = MaxTasks

\* the positions of the tasks a filter asks for
Pedidas(ts, filtro) ==
  { i \in 1..Len(ts) : filtro = None \/ ts[i].concluida = filtro[1] }

C12_IdaEVolta ==
  \A i \in 1..Len(tasks) :
    SemSeparador(<< tasks[i] >>)
      => /\ from_line_ok(to_line(tasks[i]))
         /\ from_line(to_line(tasks[i]), agora) = tasks[i]

\* the fields of a line as from_line sees them
Campos(linha) == split(strip(linha), <<>>)

\* a line the claim calls malformed
MalFormada(linha) ==
  \/ Len(Campos(linha)) # 6
  \/ Campos(linha)[5] \notin { TrueTxt, FalseTxt }
  \/ ~iso_valido(Campos(linha)[4])
  \/ (Campos(linha)[6] # NoneTxt /\ ~iso_valido(Campos(linha)[6]))

\* C13: from_line raises, and gives no task, for every line that has not six
\* fields, or whose fifth field is neither True nor False, or whose creation
\* date is no date, or whose completion date is neither a date nor None; a
\* completion date None is read as no date.
C13_LinhaMalFormada ==
  [][ TaskManager_init
        => /\ (existe /\ \E i \in 1..Len(arquivo) : MalFormada(arquivo[i]))
                => ultimo'.erro = "Parse"
           /\ (existe /\ ultimo'.erro = "ok")
                => \A i \in 1..Len(arquivo) :
                     Campos(arquivo[i])[6] = NoneTxt
                       => tasks'[i].data_conclusao = None ]_vars

\* a line the load reads: six fields, a creation date, a completion date
\* or None
Legivel(linha) ==
  /\ Len(Campos(linha)) = 6
  /\ iso_valido(Campos(linha)[4])
  /\ (Campos(linha)[6] = NoneTxt \/ iso_valido(Campos(linha)[6]))

\* C14: building the manager with no file gives the empty list and creates
\* no file; with a file whose lines all read, it gives one task per line, in
\* file order, with the fields of the line; with a file one line of which
\* does not read, it fails and no list holding some of the lines results.
C14_CargaTudoOuNada ==
  [][ TaskManager_init
        => /\ UNCHANGED << existe, arquivo >>
           /\ IF ~existe
              THEN ultimo'.erro = "ok" /\ tasks' = <<>>
              ELSE IF \A i \in 1..Len(arquivo) : Legivel(arquivo[i])
              THEN /\ ultimo'.erro = "ok"
                   /\ Len(tasks') = Len(arquivo)
                   /\ \A i \in 1..Len(arquivo) :
                        /\ tasks'[i].nome = Campos(arquivo[i])[1]
                        /\ tasks'[i].prioridade = lower(Campos(arquivo[i])[2])
                        /\ tasks'[i].categoria = Campos(arquivo[i])[3]
                        /\ tasks'[i].concluida = (Campos(arquivo[i])[5] = TrueTxt)
              ELSE ultimo'.erro = "Parse" /\ tasks' = tasks /\ tasks' = <<>>
    ]_vars

\* a load that failed on the second line of a file whose first line reads,
\* and left no task
C14_Witness ==
  /\ ultimo.op = "init"
  /\ ultimo.erro = "Parse"
  /\ Len(arquivo) = 2
  /\ Legivel(arquivo[1])
  /\ ~Legivel(arquivo[2])
  /\ tasks = <<>>

\* C15: with the clock never going back, every task has a creation date, not
\* later than now, and a completion date, when present, not earlier than the
\* creation date; also in a list read back from the file.
C15_DatasOrdenadas ==
  \A i \in 1..Len(tasks) :
    /\ tasks[i].data_criacao \in Nat
    /\ tasks[i].data_criacao <= agora
    /\ tasks[i].data_conclusao # None
         => /\ tasks[i].data_conclusao[1] >= tasks[i].data_criacao
            /\ tasks[i].data_conclusao[1] <= agora

\* a list read back from the file, with a task completed after its creation
C15_Witness ==
  /\ ultimo.op = "init"
  /\ ultimo.erro = "ok"
  /\ existe
  /\ \E i \in 1..Len(tasks) :
       /\ tasks[i].data_conclusao # None
       /\ tasks[i].data_conclusao[1] > tasks[i].data_criacao

\* C16: a successful adicionar_tarefa appends one task at the end of the
\* list, with the name and category given, the priority in lowercase,
\* pending, no completion date and creation date now; the tasks already
\* there keep their place and fields.
C16_AdicionarAcrescenta ==
  [][ \A n \in Nomes, e \in Entradas :
        (adicionar_tarefa(n, e[1], e[2]) /\ ultimo'.erro = "ok")
        => ( /\ Len(tasks') = Len(tasks) + 1
             /\ \A i \in 1..Len(tasks) : tasks'[i] = tasks[i]
             /\ tasks'[Len(tasks')] =
                  [ nome |-> n,
                    prioridade |-> lower(e[1]),
                    categoria |-> e[2],
                    data_criacao |-> agora,
                    concluida |-> FALSE,
                    data_conclusao |-> None ]
             /\ tasks'[Len(tasks')].prioridade
                  \in { <<"b","a","i","x","a">>, <<"m","é","d","i","a">>,
                        <<"a","l","t","a">> } ) ]_vars

\* a second task just added, typed "Alta" and stored "alta"
C16_Witness ==
  /\ ultimo.op = "adicionar"
  /\ ultimo.erro = "ok"
  /\ Len(tasks) = 2
  /\ tasks[2].prioridade = <<"a","l","t","a">>
  /\ ~tasks[2].concluida

\* C17: a successful concluir_tarefa(X) keeps the length and order of the
\* list and changes one task named X only, and of it only concluida and
\* data_conclusao: its name, priority, category and creation date stay, and
\* every other task stays as it was.
C17_ConcluirSoConclui ==
  [][ \A n \in Nomes :
        (concluir_tarefa(n) /\ ultimo'.erro = "ok")
        => ( /\ Len(tasks') = Len(tasks)
             /\ \E i \in 1..Len(tasks) :
                  /\ tasks[i].nome = n
                  /\ \A j \in 1..Len(tasks) : j # i => tasks'[j] = tasks[j]
                  /\ tasks'[i].nome = tasks[i].nome
                  /\ tasks'[i].prioridade = tasks[i].prioridade
                  /\ tasks'[i].categoria = tasks[i].categoria
                  /\ tasks'[i].data_criacao = tasks[i].data_criacao
                  /\ tasks'[i].concluida
                  /\ tasks'[i].data_conclusao = << agora >> ) ]_vars

\* a concluir that succeeded, later than the creation, beside a pending task
C17_Witness ==
  /\ ultimo.op = "concluir"
  /\ ultimo.erro = "ok"
  /\ Len(tasks) = 2
  /\ \E i, j \in 1..2 :
       /\ tasks[i].concluida
       /\ tasks[i].data_conclusao[1] > tasks[i].data_criacao
       /\ ~tasks[j].concluida

\* the positions of the tasks not named nome
Outras(ts, nome) == { i \in 1..Len(ts) : ts[i].nome # nome }

\* C18: after remover_tarefa(X) no task named X is in the list and no line
\* of the file starts with the field X; the tasks of other names are all
\* there, unmodified, in their order; and from the state the call returns in,
\* encontrar_tarefa(X) and concluir_tarefa(X) fail with "Tarefa nao
\* encontrada" and no step but a successful adicionar_tarefa(X) brings a
\* task named X into the list.
C18_RemoverAteAdicionar ==
  [][ /\ \A n \in Nomes :
           remover_tarefa(n)
           => ( /\ ~ContemNome(tasks', n)
                /\ \A i \in 1..Len(arquivo') : split(arquivo'[i], <<>>)[1] # n
                /\ Len(tasks') = Cardinality(Outras(tasks, n))
                /\ \A k \in 1..Len(tasks') :
                     \E i \in Outras(tasks, n) :
                       /\ tasks'[k] = tasks[i]
                       /\ Cardinality({ j \in Outras(tasks, n) : j < i }) = k - 1 )
      /\ \A n \in Nomes :
           (ultimo.op = "remover" /\ ~ContemNome(tasks, n))
           => ( /\ (Encontrar(n) \/ concluir_tarefa(n))
                     => ultimo'.erro = "NaoEncontrada"
                /\ ContemNome(tasks', n)
                     => ( /\ ultimo'.op = "adicionar"
                          /\ ultimo'.erro = "ok"
                          /\ tasks'[Len(tasks')].nome = n ) ) ]_vars

\* the tasks a manager built from the file would hold are those in memory
Sincronizado(ts, ex, arq) == Descreve(ex, arq) = << ts >>

\* C19: when the write of salvar_tarefas fails in adicionar, concluir or
\* remover, the error reaches the caller and the list keeps the change (the
\* task added, completed or removed) while the file is left as it was or
\* short of the list; and a step takes the list and the file read back from
\* equal to different task sequences only when it is such a failed write
\* (names free of ';').
C19_SoFalhaDessincroniza ==
  [][ /\ \A n \in Nomes, e \in Entradas :
           adicionar_tarefa_falha(n, e[1], e[2])
           => ( /\ ultimo'.erro = "IO"
                /\ Len(tasks') = Len(tasks) + 1
                /\ tasks'[Len(tasks')].nome = n
                /\ (arquivo' = arquivo \/ Len(arquivo') < Len(tasks')) )
      /\ \A n \in Nomes :
           concluir_tarefa_falha(n)
           => ( /\ ultimo'.erro = "IO"
                /\ \E i \in 1..Len(tasks') :
                     tasks'[i].nome = n /\ tasks'[i].concluida
                /\ (arquivo' = arquivo \/ Len(arquivo') < Len(tasks')) )
      /\ \A n \in Nomes :
           remover_tarefa_falha(n)
           => ( /\ ultimo'.erro = "IO"
                /\ ~ContemNome(tasks', n)
                /\ (arquivo' = arquivo \/ Len(arquivo') < Len(tasks')) )
      /\ ( /\ Sincronizado(tasks, existe, arquivo)
           /\ SemSeparador(tasks')
           /\ ~Sincronizado(tasks', existe', arquivo') )
         => ultimo'.erro = "IO" ]_vars

====
